---- MODULE Spec2Model ----
(***************************************************************************)
(* gnarkd proving service: the job registry, the witness listener, the     *)
(* single worker, the TTL garbage collector and the subscription fabric of *)
(* package server, as a state machine.                                     *)
(*                                                                         *)
(* Every goroutine is a process with a position (pc).  A step is the code  *)
(* between two synchronisation points: a job lock acquisition, a channel   *)
(* send or receive, a socket read.  A lock that is held across such a      *)
(* point (receiveWitness during the witness read, isExpired during a       *)
(* blocked send to a subscriber) is held in the state.                     *)
(***************************************************************************)
EXTENDS Integers, Sequences, FiniteSets, TLC

\* ---------------------------------------------------------------- bounds
\* jobs created under Spec
MaxJobs == 2
\* jobs created under the backpressure scenario (SpecBP)
ScenarioJobs == 3
MaxConns == 2
MaxSubs == 1
\* capacities of chJobQueue explored: 1..QueueCap (the program's is
\* jobQueueSize; small capacities make a full queue reachable with few jobs)
QueueCap == 2
\* circuit.fullWitnessSize of the one circuit of the catalog, in bytes
fullWitnessSize == 2

\* circuit directories under the supported curves of a catalog on disk
MaxDirs == 2
\* files in one circuit directory
MaxFiles == 4

\* ------------------------------------------------------ program constants
jobQueueSize == 10

Max(S) == CHOOSE x \in S : \A y \in S : x >= y
Min(S) == CHOOSE x \in S : \A y \in S : x <= y

Jobs == 1..MaxJobs
JobIds == 1..Max({MaxJobs, ScenarioJobs})
Conns == 1..MaxConns
Subs == 1..MaxSubs
\* the jobID of no job of the registry
NoJob == Min(JobIds) - 1

WAITING_WITNESS == "WAITING_WITNESS"
QUEUED == "QUEUED"
RUNNING == "RUNNING"
COMPLETED == "COMPLETED"
ERRORED == "ERRORED"
Status == {WAITING_WITNESS, QUEUED, RUNNING, COMPLETED, ERRORED}
Terminal == {COMPLETED, ERRORED}

errNil == "nil"
errJobExpired == "job expired"
errJobCancelled == "job cancelled"
\* the error returned by groth16.ReadAndProve or by proof.WriteTo
errProve == "prove failed"

VARIABLES
    reg,          \* Server.jobs: "none" (never created), "in", "deleted"
    status,       \* proveJob.status
    witness,      \* len(proveJob.witness), 0 is nil
    proof,        \* len(proveJob.proof) > 0
    err,          \* proveJob.err
    expired,      \* proveJob.expiration.Before(time.Now())
    locked,       \* proveJob's mutex is held
    subscribers,  \* proveJob.subscribers, in registration order
    sink,         \* number of signals buffered in a subscriber's channel
    queue,        \* the buffer of Server.chJobQueue
    sendq,        \* the receiveWitness goroutines parked sending on chJobQueue
    chCap,        \* cap(Server.chJobQueue), 0 before it is made
    ctxDone,      \* Server.ctx is cancelled: ctx.Done() is closed
    circuitDir,   \* what is on disk under Server.circuitDir
    circuits,     \* len(Server.circuits)
    server,       \* NewServer: "none" (not called), "ok" (s, nil), "error" (nil, err)
    started,      \* the goroutines NewServer has started
    connPc, connJob, reply,   \* receiveWitness goroutines
    failErr,      \* the error the connection's fail handler was called with
    wPc, wJob, wIdx,          \* startWorker goroutine
    gcPc, gcJob, gcIdx,       \* startGC goroutine
    subPc, subJob, lastMsg,   \* SubscribeToProveJob handlers
    woken,        \* history: the handler was woken by its sink since it registered
    fatal,        \* log.Fatalw was called: the process is gone
    pubCount,     \* history: how often the jobID entered the buffer of chJobQueue
    pending,      \* history: jobIDs published and not yet received, oldest first
    behind,       \* history: jobIDs that were queued behind the last one received
    missed        \* history: the last jobID received was not in Server.jobs

jobVars == <<reg, status, witness, proof, err, expired, locked>>
subVars == <<subscribers, sink, subPc, subJob, lastMsg, woken>>
connVars == <<connPc, connJob, reply, failErr>>
workerVars == <<wPc, wJob, wIdx>>
gcVars == <<gcPc, gcJob, gcIdx>>
chanVars == <<queue, sendq, pubCount, pending>>
serverVars == <<chCap, ctxDone, circuitDir, circuits, server, started>>
vars == <<jobVars, subVars, connVars, workerVars, gcVars, chanVars, serverVars,
          fatal, behind, missed>>

InitJobs ==
    /\ reg = [j \in JobIds |-> "none"]
    /\ status = [j \in JobIds |-> WAITING_WITNESS]
    /\ witness = [j \in JobIds |-> 0]
    /\ proof = [j \in JobIds |-> FALSE]
    /\ err = [j \in JobIds |-> errNil]
    /\ expired = [j \in JobIds |-> FALSE]
    /\ locked = [j \in JobIds |-> FALSE]
    /\ subscribers = [j \in JobIds |-> <<>>]
    /\ sink = [s \in Subs |-> 0]
    /\ queue = <<>>
    /\ sendq = <<>>
    /\ connPc = [c \in Conns |-> "idle"]
    /\ connJob = [c \in Conns |-> NoJob]
    /\ reply = [c \in Conns |-> "none"]
    /\ failErr = [c \in Conns |-> errNil]
    /\ wPc = "recv" /\ wJob = NoJob /\ wIdx = 0
    /\ gcPc = "idle" /\ gcJob = NoJob /\ gcIdx = 0
    /\ subPc = [s \in Subs |-> "none"]
    /\ subJob = [s \in Subs |-> NoJob]
    /\ lastMsg = [s \in Subs |-> "none"]
    /\ woken = [s \in Subs |-> FALSE]
    /\ fatal = "none"
    /\ pubCount = [j \in JobIds |-> 0]
    /\ pending = <<>>
    /\ behind = 0
    /\ missed = FALSE

\* the suffixes of the files of a circuit, and one of any other file
pkExt == ".pk"
vkExt == ".vk"
r1csExt == ".r1cs"
otherExt == ".txt"
circuitExts == {pkExt, vkExt, r1csExt}

\* the goroutines of NewServer
Tasks == {"worker", "gc"}

\* a catalog with one complete circuit
OneCircuit ==
    [stat |-> "ok", dirs |-> << <<pkExt, vkExt, r1csExt>> >>, readable |-> TRUE]

\* NewServer has returned a server: its catalog is loaded, its context is not
\* cancelled and its worker and GC are started
InitServer ==
    /\ ctxDone = FALSE
    /\ circuitDir = OneCircuit
    /\ circuits = Len(OneCircuit.dirs)
    /\ server = "ok"
    /\ started = Tasks

\* NewServer: s.chJobQueue = make(chan jobID, jobQueueSize), at the capacities
\* the model explores
Init ==
    /\ InitJobs
    /\ InitServer
    /\ chCap \in 1..Min({QueueCap, jobQueueSize})

Alive == fatal = "none"

\* ------------------------------------------------------------ job lifecycle
\* the state machine of the job status
Edges ==
    { <<WAITING_WITNESS, QUEUED>>, <<QUEUED, RUNNING>>, <<RUNNING, COMPLETED>>,
      <<RUNNING, ERRORED>>, <<WAITING_WITNESS, ERRORED>>, <<QUEUED, ERRORED>> }

\* proveJob.setStatus validates the transition against the state machine
setStatusOk(from, to) == <<from, to>> \in Edges

Range(f) == { f[i] : i \in DOMAIN f }

\* setStatus fans out with a non-blocking send to every sink of the job
NotifyAll(j) ==
    [s \in Subs |-> IF s \in Range(subscribers[j]) THEN 1 ELSE sink[s]]

\* `for _, ch := range job.subscribers { ch <- struct{}{} }` started at index i:
\* the index of the first sink that is full (the send blocks there), 0 if none
FirstFull(j, i) ==
    LET full == { k \in i..Len(subscribers[j]) : sink[subscribers[j][k]] = 1 }
    IN  IF full = {} THEN 0 ELSE Min(full)

\* the sinks after the sends of that loop that do not block
SinkAfterSend(j, i) ==
    LET k == FirstFull(j, i)
        last == IF k = 0 THEN Len(subscribers[j]) ELSE k - 1
    IN  [s \in Subs |->
            IF \E m \in i..last : subscribers[j][m] = s THEN 1 ELSE sink[s]]

\* Server.updateJobStatusOrDie without the Fatalw: an invalid transition is
\* logged and the caller goes on
updateJobStatusOrLog(j, st, who) ==
    /\ ~locked[j]
    /\ IF setStatusOk(status[j], st)
       THEN /\ status' = [status EXCEPT ![j] = st]
            /\ sink' = NotifyAll(j)
       ELSE UNCHANGED <<status, sink>>
    /\ UNCHANGED fatal

\* Server.updateJobStatusOrDie: job.setStatus under the job's lock; an error
\* is fatal to the process
updateJobStatusOrDie(j, st, who) ==
    /\ ~locked[j]
    /\ IF setStatusOk(status[j], st)
       THEN /\ status' = [status EXCEPT ![j] = st]
            /\ sink' = NotifyAll(j)
            /\ UNCHANGED fatal
       ELSE /\ fatal' = who
            /\ UNCHANGED <<status, sink>>

\* Server.isExpired from job.Lock() to its return, or to the first send that
\* blocks on a full sink (the lock stays held there)
isExpired(j) ==
    /\ ~locked[j]
    /\ IF expired[j]
       THEN /\ status' = [status EXCEPT ![j] = ERRORED]
            /\ err' = [err EXCEPT ![j] = errJobExpired]
            /\ sink' = SinkAfterSend(j, 1)
            /\ locked' = [locked EXCEPT ![j] = (FirstFull(j, 1) # 0)]
       ELSE UNCHANGED <<status, err, sink, locked>>

\* the blocked send of isExpired goes through once the sink at index i is empty
isExpiredResume(j, i) ==
    /\ sink[subscribers[j][i]] = 0
    /\ sink' = SinkAfterSend(j, i)
    /\ locked' = [locked EXCEPT ![j] = (FirstFull(j, i) # 0)]

\* ------------------------------------------------------------- environment
\* wall-clock time passes the expiration of job j
Tick(j) ==
    /\ Alive
    /\ reg[j] # "none"
    /\ ~expired[j]
    /\ expired' = [expired EXCEPT ![j] = TRUE]
    /\ UNCHANGED <<reg, status, witness, proof, err, locked, subVars, connVars,
                   workerVars, gcVars, chanVars, serverVars, fatal, behind, missed>>

\* CreateProveJob: a fresh job in WAITING_WITNESS is stored in Server.jobs
CreateProveJob(j) ==
    /\ Alive
    /\ reg[j] = "none"
    /\ \A i \in JobIds : i < j => reg[i] # "none"
    /\ reg' = [reg EXCEPT ![j] = "in"]
    /\ UNCHANGED <<status, witness, proof, err, expired, locked, subVars,
                   connVars, workerVars, gcVars, chanVars, serverVars, fatal,
                   behind, missed>>

\* CancelProveJob: WAITING_WITNESS or QUEUED becomes ERRORED with err = cancelled
\* and the subscribers are signalled; RUNNING and terminal jobs are left alone
CancelProveJob(j) ==
    /\ Alive
    /\ reg[j] = "in"
    /\ ~locked[j]
    /\ IF status[j] \in {WAITING_WITNESS, QUEUED}
       THEN /\ status' = [status EXCEPT ![j] = ERRORED]
            /\ err' = [err EXCEPT ![j] = errJobCancelled]
            /\ sink' = NotifyAll(j)
       ELSE UNCHANGED <<status, err, sink>>
    /\ UNCHANGED <<reg, witness, proof, expired, locked, subscribers, subPc,
                   subJob, lastMsg, woken, connVars, workerVars, gcVars, chanVars,
                   serverVars, fatal, behind, missed>>

\* ---------------------------------------------------- StartWitnessListener
\* l.Accept() returns an error: the listener calls log.Fatalw and the process
\* is gone
AcceptFails ==
    /\ Alive
    /\ fatal' = "listener"
    /\ UNCHANGED <<jobVars, subVars, connVars, workerVars, gcVars, chanVars,
                   serverVars, behind, missed>>

\* --------------------------------------------------------- receiveWitness
\* the errors receiveWitness passes to its fail handler: the jobID could not be
\* read or parsed or is not in Server.jobs; the job is not waiting for its
\* witness; io.ReadFull of the witness failed
errUnknownJob == "unknown jobID"
errNotWaiting == "job is not waiting for witness"
errShortRead == "unexpected EOF"

\* the fail handler: the error is logged, "nok" is written and the connection
\* closed
fail(c, e) ==
    /\ reply' = [reply EXCEPT ![c] = "nok"]
    /\ failErr' = [failErr EXCEPT ![c] = e]

\* a witness connection is accepted; the jobID is read, parsed (id = NoJob: not
\* a jobID of the registry) and looked up with s.jobs.Load; the goroutine then
\* holds the job it found and goes on to job.Lock()
RWAccept(c, id) ==
    /\ Alive
    /\ connPc[c] = "idle"
    /\ IF id \notin JobIds \/ reg[id] # "in"
       THEN /\ fail(c, errUnknownJob)
            /\ UNCHANGED <<connPc, connJob>>
       ELSE /\ connPc' = [connPc EXCEPT ![c] = "lock"]
            /\ connJob' = [connJob EXCEPT ![c] = id]
            /\ reply' = [reply EXCEPT ![c] = "none"]
            /\ failErr' = [failErr EXCEPT ![c] = errNil]
    /\ UNCHANGED <<jobVars, subVars, workerVars, gcVars, chanVars, serverVars,
                   fatal, behind, missed>>

\* the status check with another condition: the job is kept for the witness
\* read when its status is in admissible
RWLockIf(c, admissible) ==
    /\ Alive
    /\ connPc[c] = "lock"
    /\ ~locked[connJob[c]]
    /\ IF status[connJob[c]] \notin admissible
       THEN /\ fail(c, errNotWaiting)
            /\ connPc' = [connPc EXCEPT ![c] = "idle"]
            /\ connJob' = [connJob EXCEPT ![c] = NoJob]
            /\ UNCHANGED locked
       ELSE /\ locked' = [locked EXCEPT ![connJob[c]] = TRUE]
            /\ connPc' = [connPc EXCEPT ![c] = "read"]
            /\ UNCHANGED <<connJob, reply, failErr>>
    /\ UNCHANGED <<reg, status, witness, proof, err, expired, subVars,
                   workerVars, gcVars, chanVars, serverVars, fatal, behind, missed>>

\* the status check refuses only a job that already has its witness
RWLockUnlessQueued(c) == RWLockIf(c, Status \ {QUEUED})

\* the status check refuses only a job that is queued or being proved
RWLockUnlessInProgress(c) == RWLockIf(c, Status \ {QUEUED, RUNNING})

\* job.Lock() and the status check, on the job the goroutine found (it may have
\* left Server.jobs since): a job that is not waiting for its witness is
\* unlocked and refused, otherwise the lock is kept for the witness read
RWLock(c) ==
    /\ Alive
    /\ connPc[c] = "lock"
    /\ ~locked[connJob[c]]
    /\ IF status[connJob[c]] # WAITING_WITNESS
       THEN /\ fail(c, errNotWaiting)
            /\ connPc' = [connPc EXCEPT ![c] = "idle"]
            /\ connJob' = [connJob EXCEPT ![c] = NoJob]
            /\ UNCHANGED locked
       ELSE /\ locked' = [locked EXCEPT ![connJob[c]] = TRUE]
            /\ connPc' = [connPc EXCEPT ![c] = "read"]
            /\ UNCHANGED <<connJob, reply, failErr>>
    /\ UNCHANGED <<reg, status, witness, proof, err, expired, subVars,
                   workerVars, gcVars, chanVars, serverVars, fatal, behind, missed>>

\* a read that fails on a short read without job.Unlock()
RWReadKeepsLock(c, n) ==
    /\ Alive
    /\ connPc[c] = "read"
    /\ IF n < fullWitnessSize
       THEN /\ fail(c, errShortRead)
            /\ connPc' = [connPc EXCEPT ![c] = "idle"]
            /\ connJob' = [connJob EXCEPT ![c] = NoJob]
            /\ UNCHANGED <<witness, locked>>
       ELSE /\ witness' = [witness EXCEPT ![connJob[c]] = fullWitnessSize]
            /\ connPc' = [connPc EXCEPT ![c] = "setq"]
            /\ locked' = [locked EXCEPT ![connJob[c]] = FALSE]
            /\ UNCHANGED <<reply, failErr, connJob>>
    /\ UNCHANGED <<reg, status, proof, err, expired, subVars, workerVars,
                   gcVars, chanVars, serverVars, fatal, behind, missed>>

\* a read that stores what it got in job.witness before it fails on a short
\* read
RWReadKeepsPartial(c, n) ==
    /\ Alive
    /\ connPc[c] = "read"
    /\ witness' = [witness EXCEPT ![connJob[c]] = n]
    /\ IF n < fullWitnessSize
       THEN /\ fail(c, errShortRead)
            /\ connPc' = [connPc EXCEPT ![c] = "idle"]
            /\ connJob' = [connJob EXCEPT ![c] = NoJob]
       ELSE /\ connPc' = [connPc EXCEPT ![c] = "setq"]
            /\ UNCHANGED <<reply, failErr, connJob>>
    /\ locked' = [locked EXCEPT ![connJob[c]] = FALSE]
    /\ UNCHANGED <<reg, status, proof, err, expired, subVars, workerVars,
                   gcVars, chanVars, serverVars, fatal, behind, missed>>

\* io.ReadFull(c, wBuf) delivers n bytes; fewer than fullWitnessSize is an error
RWRead(c, n) ==
    /\ Alive
    /\ connPc[c] = "read"
    /\ IF n < fullWitnessSize
       THEN /\ fail(c, errShortRead)
            /\ connPc' = [connPc EXCEPT ![c] = "idle"]
            /\ connJob' = [connJob EXCEPT ![c] = NoJob]
            /\ UNCHANGED witness
       ELSE /\ witness' = [witness EXCEPT ![connJob[c]] = fullWitnessSize]
            /\ connPc' = [connPc EXCEPT ![c] = "setq"]
            /\ UNCHANGED <<reply, failErr, connJob>>
    /\ locked' = [locked EXCEPT ![connJob[c]] = FALSE]
    /\ UNCHANGED <<reg, status, proof, err, expired, subVars, workerVars,
                   gcVars, chanVars, serverVars, fatal, behind, missed>>

\* s.updateJobStatusOrDie(job, QUEUED), after the lock was released
RWSetQueued(c) ==
    /\ Alive
    /\ connPc[c] = "setq"
    /\ updateJobStatusOrDie(connJob[c], QUEUED, "ingest")
    /\ connPc' = [connPc EXCEPT ![c] = "publish"]
    /\ UNCHANGED <<reg, witness, proof, err, expired, locked, subscribers, subPc,
                   subJob, lastMsg, woken, connJob, reply, failErr, workerVars,
                   gcVars, chanVars, serverVars, behind, missed>>

\* the jobID of connection c enters the buffer q of chJobQueue; the goroutine
\* goes on to success(): "ok" is written and the connection closed
Published(c, q) ==
    /\ queue' = Append(q, connJob[c])
    /\ pending' = Append(pending, connJob[c])
    /\ pubCount' = [pubCount EXCEPT ![connJob[c]] = @ + 1]
    /\ reply' = [reply EXCEPT ![c] = "ok"]
    /\ connPc' = [connPc EXCEPT ![c] = "idle"]
    /\ connJob' = [connJob EXCEPT ![c] = NoJob]
    /\ UNCHANGED failErr

\* a send that ignores the capacity of the channel
RWPublishUnbounded(c) ==
    /\ Alive
    /\ connPc[c] = "publish"
    /\ Published(c, queue)
    /\ UNCHANGED <<sendq, jobVars, subVars, workerVars, gcVars, serverVars, fatal,
                   behind, missed>>

\* s.chJobQueue <- jobID: the jobID enters the buffer, or the goroutine parks
\* on the channel while the buffer is full
RWPublish(c) ==
    /\ Alive
    /\ connPc[c] = "publish"
    /\ IF Len(queue) < chCap
       THEN Published(c, queue) /\ UNCHANGED sendq
       ELSE /\ sendq' = Append(sendq, c)
            /\ connPc' = [connPc EXCEPT ![c] = "parked"]
            /\ UNCHANGED <<queue, pending, pubCount, reply, failErr, connJob>>
    /\ UNCHANGED <<jobVars, subVars, workerVars, gcVars, serverVars, fatal,
                   behind, missed>>

\* ------------------------------------------------------------ startWorker
\* RemoveAt(q, i): q without its i-th element
RemoveAt(q, i) == SubSeq(q, 1, i - 1) \o SubSeq(q, i + 1, Len(q))

\* the first index of x in q (x is in q)
IndexOf(q, x) == Min({ i \in 1..Len(q) : q[i] = x })

\* a receive that treats a jobID missing from Server.jobs as fatal (Fatalw in
\* place of Errorw and continue)
ReceiveOrDie(i) ==
    /\ LET j == queue[i]
           rest == RemoveAt(queue, i)
       IN /\ behind' = Len(queue) - i
          /\ missed' = (reg[j] # "in")
          /\ IF sendq # <<>>
             THEN /\ queue' = Append(rest, connJob[Head(sendq)])
                  /\ pending' = Append(RemoveAt(pending, IndexOf(pending, j)),
                                       connJob[Head(sendq)])
                  /\ pubCount' = [pubCount EXCEPT ![connJob[Head(sendq)]] = @ + 1]
                  /\ reply' = [reply EXCEPT ![Head(sendq)] = "ok"]
                  /\ connPc' = [connPc EXCEPT ![Head(sendq)] = "idle"]
                  /\ connJob' = [connJob EXCEPT ![Head(sendq)] = NoJob]
                  /\ UNCHANGED failErr
                  /\ sendq' = Tail(sendq)
             ELSE /\ queue' = rest
                  /\ pending' = RemoveAt(pending, IndexOf(pending, j))
                  /\ UNCHANGED <<sendq, pubCount, connVars>>
          /\ IF reg[j] = "in"
             THEN wPc' = "expire" /\ wJob' = j /\ UNCHANGED fatal
             ELSE fatal' = "worker" /\ UNCHANGED <<wPc, wJob>>
    /\ UNCHANGED <<jobVars, subVars, wIdx, gcVars, serverVars>>

\* the receive on chJobQueue takes the element at index i of the buffer (the
\* head, for a Go channel); the first parked sender, if any, puts its jobID in
\* the freed slot in the same operation. Then s.jobs.Load(jobID): an unknown
\* job is skipped.
Receive(i) ==
    /\ LET j == queue[i]
           rest == RemoveAt(queue, i)
       IN /\ behind' = Len(queue) - i
          /\ missed' = (reg[j] # "in")
          /\ IF sendq # <<>>
             THEN /\ queue' = Append(rest, connJob[Head(sendq)])
                  /\ pending' = Append(RemoveAt(pending, IndexOf(pending, j)),
                                       connJob[Head(sendq)])
                  /\ pubCount' = [pubCount EXCEPT ![connJob[Head(sendq)]] = @ + 1]
                  /\ reply' = [reply EXCEPT ![Head(sendq)] = "ok"]
                  /\ connPc' = [connPc EXCEPT ![Head(sendq)] = "idle"]
                  /\ connJob' = [connJob EXCEPT ![Head(sendq)] = NoJob]
                  /\ UNCHANGED failErr
                  /\ sendq' = Tail(sendq)
             ELSE /\ queue' = rest
                  /\ pending' = RemoveAt(pending, IndexOf(pending, j))
                  /\ UNCHANGED <<sendq, pubCount, connVars>>
          /\ IF reg[j] = "in"
             THEN wPc' = "expire" /\ wJob' = j
             ELSE UNCHANGED <<wPc, wJob>>
    /\ UNCHANGED <<jobVars, subVars, wIdx, gcVars, serverVars, fatal>>

\* a receive that takes the most recently sent jobID
WRecvLast ==
    /\ Alive
    /\ wPc = "recv"
    /\ queue # <<>>
    /\ Receive(Len(queue))

\* case jobID, ok := <-s.chJobQueue
WRecv ==
    /\ Alive
    /\ wPc = "recv"
    /\ queue # <<>>
    /\ Receive(1)

\* if s.isExpired(job) { continue }
WIsExpired ==
    /\ Alive
    /\ wPc = "expire"
    /\ isExpired(wJob)
    /\ IF ~expired[wJob]
       THEN wPc' = "setrun" /\ UNCHANGED <<wJob, wIdx>>
       ELSE IF FirstFull(wJob, 1) # 0
       THEN wPc' = "send" /\ wIdx' = FirstFull(wJob, 1) /\ UNCHANGED wJob
       ELSE wPc' = "recv" /\ wJob' = NoJob /\ UNCHANGED wIdx
    /\ UNCHANGED <<reg, witness, proof, expired, subscribers, subPc, subJob,
                   lastMsg, woken, connVars, gcVars, chanVars, serverVars, fatal,
                   behind, missed>>

\* the worker's isExpired was blocked sending to a subscriber and goes on
WSend ==
    /\ Alive
    /\ wPc = "send"
    /\ isExpiredResume(wJob, wIdx)
    /\ IF FirstFull(wJob, wIdx) # 0
       THEN wIdx' = FirstFull(wJob, wIdx) /\ UNCHANGED <<wPc, wJob>>
       ELSE wPc' = "recv" /\ wJob' = NoJob /\ wIdx' = 0
    /\ UNCHANGED <<reg, status, witness, proof, err, expired, subscribers, subPc,
                   subJob, lastMsg, woken, connVars, gcVars, chanVars, serverVars,
                   fatal,
                   behind, missed>>

\* s.updateJobStatusOrDie(job, RUNNING)
WSetRunning ==
    /\ Alive
    /\ wPc = "setrun"
    /\ updateJobStatusOrDie(wJob, RUNNING, "worker")
    /\ wPc' = "prove"
    /\ UNCHANGED <<reg, witness, proof, err, expired, locked, subscribers, subPc,
                   subJob, lastMsg, woken, connVars, wJob, wIdx, gcVars, chanVars,
                   serverVars, behind, missed>>

\* groth16.ReadAndProve returns, job.witness = nil, and the worker writes
\* job.err (the prover or the serialization failed) or job.proof, all without
\* the job's lock
WProve(outcome) ==
    /\ Alive
    /\ wPc = "prove"
    /\ witness' = [witness EXCEPT ![wJob] = 0]
    /\ IF outcome = "ok"
       THEN /\ proof' = [proof EXCEPT ![wJob] = TRUE]
            /\ wPc' = "setcompleted"
            /\ UNCHANGED err
       ELSE /\ err' = [err EXCEPT ![wJob] = errProve]
            /\ wPc' = "seterrored"
            /\ UNCHANGED proof
    /\ UNCHANGED <<reg, status, expired, locked, subVars, connVars, wJob, wIdx,
                   gcVars, chanVars, serverVars, fatal, behind, missed>>

\* a worker that goes to the next jobID without setting the final status
WLeaveRunning ==
    /\ Alive
    /\ wPc \in {"setcompleted", "seterrored"}
    /\ wPc' = "recv"
    /\ wJob' = NoJob
    /\ UNCHANGED <<jobVars, subVars, connVars, wIdx, gcVars, chanVars, serverVars,
                   fatal, behind, missed>>

\* s.updateJobStatusOrDie(job, COMPLETED) or (job, ERRORED), then the next jobID
WSetDone ==
    /\ Alive
    /\ wPc \in {"setcompleted", "seterrored"}
    /\ updateJobStatusOrDie(wJob, IF wPc = "setcompleted" THEN COMPLETED ELSE ERRORED,
                            "worker")
    /\ wPc' = "recv"
    /\ wJob' = NoJob
    /\ UNCHANGED <<reg, witness, proof, err, expired, locked, subscribers, subPc,
                   subJob, lastMsg, woken, connVars, wIdx, gcVars, chanVars, serverVars,
                   behind, missed>>

\* ------------------------------------------------------------------ startGC
\* the one GC goroutine is at the ticker ("idle"), inside a sweep waiting in
\* job.Lock() of isExpired ("lock"), blocked in a send of isExpired ("send"),
\* or between the return of isExpired and s.jobs.Delete ("delete")

\* s.isExpired(job) of the sweep from the moment it has the job's lock: the job
\* is left alone, or isExpired blocks in a send with the lock held, or it
\* returns true with the lock released and the sweep goes on to the Delete
GCIsExpired(j) ==
    /\ isExpired(j)
    /\ IF ~expired[j]
       THEN gcPc' = "idle" /\ gcJob' = NoJob /\ gcIdx' = 0
       ELSE IF FirstFull(j, 1) # 0
       THEN gcPc' = "send" /\ gcJob' = j /\ gcIdx' = FirstFull(j, 1)
       ELSE gcPc' = "delete" /\ gcJob' = j /\ gcIdx' = 0

\* s.jobs.Range hands job j to the sweep, which calls s.isExpired(job): the
\* goroutine waits in job.Lock() while the lock is held
GCVisit(j) ==
    /\ Alive
    /\ gcPc = "idle"
    /\ reg[j] = "in"
    /\ IF locked[j]
       THEN /\ gcPc' = "lock" /\ gcJob' = j
            /\ UNCHANGED <<gcIdx, status, err, sink, locked>>
       ELSE GCIsExpired(j)
    /\ UNCHANGED <<reg, witness, proof, expired, subscribers, subPc, subJob,
                   lastMsg, woken, connVars, workerVars, chanVars, serverVars,
                   fatal, behind, missed>>

\* the sweep gets the lock it was waiting for
GCLock ==
    /\ Alive
    /\ gcPc = "lock"
    /\ GCIsExpired(gcJob)
    /\ UNCHANGED <<reg, witness, proof, expired, subscribers, subPc, subJob,
                   lastMsg, woken, connVars, workerVars, chanVars, serverVars,
                   fatal, behind, missed>>

\* the sweep's isExpired was blocked sending to a subscriber and goes on; after
\* the last send it returns true and the deferred job.Unlock() runs
GCSend ==
    /\ Alive
    /\ gcPc = "send"
    /\ isExpiredResume(gcJob, gcIdx)
    /\ IF FirstFull(gcJob, gcIdx) # 0
       THEN gcIdx' = FirstFull(gcJob, gcIdx) /\ UNCHANGED <<gcPc, gcJob>>
       ELSE gcPc' = "delete" /\ gcIdx' = 0 /\ UNCHANGED gcJob
    /\ UNCHANGED <<reg, status, witness, proof, err, expired, subscribers, subPc,
                   subJob, lastMsg, woken, connVars, workerVars, chanVars,
                   serverVars, fatal, behind, missed>>

\* s.jobs.Delete(job.id), after isExpired has returned true
GCDelete ==
    /\ Alive
    /\ gcPc = "delete"
    /\ reg' = [reg EXCEPT ![gcJob] = "deleted"]
    /\ gcPc' = "idle" /\ gcJob' = NoJob
    /\ UNCHANGED <<status, witness, proof, err, expired, locked, subVars,
                   connVars, workerVars, gcIdx, chanVars, serverVars, fatal,
                   behind, missed>>

\* ------------------------------------------------------ SubscribeToProveJob
\* a handler that registers its sink and waits whatever the status it emitted
SubscribeAndWait(s, j) ==
    /\ Alive
    /\ subPc[s] = "none"
    /\ reg[j] = "in"
    /\ ~locked[j]
    /\ subJob' = [subJob EXCEPT ![s] = j]
    /\ lastMsg' = [lastMsg EXCEPT ![s] = status[j]]
    /\ subPc' = [subPc EXCEPT ![s] = "wait"]
    /\ subscribers' = [subscribers EXCEPT ![j] = Append(@, s)]
    /\ UNCHANGED <<jobVars, sink, woken, connVars, workerVars, gcVars, chanVars,
                   serverVars, fatal, behind, missed>>

\* the handler registers a one-slot sink and emits the current status; a
\* terminal status closes the stream and releases the sink
Subscribe(s, j) ==
    /\ Alive
    /\ subPc[s] = "none"
    /\ reg[j] = "in"
    /\ ~locked[j]
    /\ subJob' = [subJob EXCEPT ![s] = j]
    /\ lastMsg' = [lastMsg EXCEPT ![s] = status[j]]
    /\ IF status[j] \in Terminal
       THEN /\ subPc' = [subPc EXCEPT ![s] = "closed"]
            /\ UNCHANGED subscribers
       ELSE /\ subPc' = [subPc EXCEPT ![s] = "wait"]
            /\ subscribers' = [subscribers EXCEPT ![j] = Append(@, s)]
    /\ UNCHANGED <<jobVars, sink, woken, connVars, workerVars, gcVars, chanVars,
                   serverVars, fatal, behind, missed>>

\* the handler is woken by a signal on its sink
SubRecv(s) ==
    /\ Alive
    /\ subPc[s] = "wait"
    /\ sink[s] = 1
    /\ sink' = [sink EXCEPT ![s] = 0]
    /\ subPc' = [subPc EXCEPT ![s] = "wake"]
    /\ woken' = [woken EXCEPT ![s] = TRUE]
    /\ UNCHANGED <<jobVars, subscribers, subJob, lastMsg, connVars, workerVars,
                   gcVars, chanVars, serverVars, fatal, behind, missed>>

\* the woken handler reads the status under the job's lock and emits it; a
\* terminal status closes the stream and releases the sink
SubRead(s) ==
    /\ Alive
    /\ subPc[s] = "wake"
    /\ ~locked[subJob[s]]
    /\ lastMsg' = [lastMsg EXCEPT ![s] = status[subJob[s]]]
    /\ IF status[subJob[s]] \in Terminal
       THEN /\ subPc' = [subPc EXCEPT ![s] = "closed"]
            /\ subscribers' = [subscribers EXCEPT ![subJob[s]] =
                                  SelectSeq(@, LAMBDA x : x # s)]
       ELSE /\ subPc' = [subPc EXCEPT ![s] = "wait"]
            /\ UNCHANGED subscribers
    /\ UNCHANGED <<jobVars, sink, subJob, woken, connVars, workerVars, gcVars,
                   chanVars, serverVars, fatal, behind, missed>>

\* ------------------------------------------------------------ specification
\* the whole server: the listener, two witness connections, the worker, the GC,
\* the clock, the RPC handlers and a subscriber
Next ==
    \/ AcceptFails
    \/ \E j \in Jobs : Tick(j)
    \/ \E j \in Jobs : CreateProveJob(j)
    \/ \E j \in Jobs : CancelProveJob(j)
    \/ \E c \in Conns : \E id \in Jobs \cup {NoJob} : RWAccept(c, id)
    \/ \E c \in Conns : RWLock(c)
    \/ \E c \in Conns : \E n \in 0..fullWitnessSize : RWRead(c, n)
    \/ \E c \in Conns : RWSetQueued(c)
    \/ \E c \in Conns : RWPublish(c)
    \/ WRecv
    \/ WIsExpired
    \/ WSend
    \/ WSetRunning
    \/ \E o \in {"ok", "prove error", "serialize error"} : WProve(o)
    \/ WSetDone
    \/ \E j \in Jobs : GCVisit(j)
    \/ GCLock
    \/ GCSend
    \/ GCDelete
    \/ \E s \in Subs : \E j \in Jobs : Subscribe(s, j)
    \/ \E s \in Subs : SubRecv(s)
    \/ \E s \in Subs : SubRead(s)

Spec == Init /\ [][Next]_vars

\* the goroutines of the server are scheduled fairly: the worker, the one GC
\* goroutine, the subscription handlers and the ingest steps that do not wait
\* for the client. The GC's ticker fires again and again and every sweep
\* ranges over all of Server.jobs, so a GC that keeps coming back to its
\* ticker reaches every job of the registry; a sweep that waits in job.Lock()
\* or in a send of isExpired reaches no other job meanwhile (GCVisit is
\* disabled for every job then)
Fairness ==
    /\ WF_vars(WRecv)
    /\ WF_vars(WIsExpired)
    /\ WF_vars(WSend)
    /\ WF_vars(WSetRunning)
    /\ WF_vars(\E o \in {"ok", "prove error", "serialize error"} : WProve(o))
    /\ WF_vars(WSetDone)
    /\ \A j \in Jobs : SF_vars(GCVisit(j))
    /\ WF_vars(GCLock)
    /\ WF_vars(GCSend)
    /\ WF_vars(GCDelete)
    /\ \A c \in Conns :
          WF_vars(RWLock(c)) /\ WF_vars(RWSetQueued(c)) /\ WF_vars(RWPublish(c))
    /\ \A s \in Subs : WF_vars(SubRecv(s)) /\ WF_vars(SubRead(s))

FairSpec == Init /\ [][Next]_vars /\ Fairness

\* ------------------------------------------------- the backpressure scenario
\* Scenario "queue backpressure": a ready-queue of capacity 1 and ScenarioJobs
\* jobs whose witnesses are uploaded while the worker proves; no subscriber,
\* and no job reaches its expiration during the scenario.
ScJobs == 1..ScenarioJobs

InitBP ==
    /\ InitJobs
    /\ InitServer
    /\ chCap = 1

NextBP ==
    \/ \E j \in ScJobs : CreateProveJob(j)
    \/ \E j \in ScJobs : CancelProveJob(j)
    \/ \E c \in Conns : \E id \in ScJobs \cup {NoJob} : RWAccept(c, id)
    \/ \E c \in Conns : RWLock(c)
    \/ \E c \in Conns : \E n \in 0..fullWitnessSize : RWRead(c, n)
    \/ \E c \in Conns : RWSetQueued(c)
    \/ \E c \in Conns : RWPublish(c)
    \/ WRecv
    \/ WIsExpired
    \/ WSetRunning
    \/ \E o \in {"ok", "prove error", "serialize error"} : WProve(o)
    \/ WSetDone

SpecBP == InitBP /\ [][NextBP]_vars

\* ------------------------------------------------------ the expiry scenario
\* Scenario "TTL expiry": the expiration of a job passes while no witness
\* connection is working on it, so every upload of an expired job started
\* after the expiration; no subscriber and no cancel.
TickBetweenUploads(j) ==
    /\ \A c \in Conns : connJob[c] # j
    /\ Tick(j)

NextTTL ==
    \/ \E j \in Jobs : TickBetweenUploads(j)
    \/ \E j \in Jobs : CreateProveJob(j)
    \/ \E c \in Conns : \E id \in Jobs \cup {NoJob} : RWAccept(c, id)
    \/ \E c \in Conns : RWLock(c)
    \/ \E c \in Conns : \E n \in 0..fullWitnessSize : RWRead(c, n)
    \/ \E c \in Conns : RWSetQueued(c)
    \/ \E c \in Conns : RWPublish(c)
    \/ WRecv
    \/ WIsExpired
    \/ WSetRunning
    \/ \E o \in {"ok", "prove error", "serialize error"} : WProve(o)
    \/ WSetDone
    \/ \E j \in Jobs : GCVisit(j)
    \/ GCLock
    \/ GCDelete

SpecTTL == Init /\ [][NextTTL]_vars

\* ------------------------------------------------------------- the catalog
\* the sequences over S of length at most n
SeqUpTo(S, n) == UNION { [1..k -> S] : k \in 0..n }

\* what NewServer may find on disk: os.Stat of the root ("ok", "not exist" or
\* another error); under the supported curves, in the order of the walk, the
\* circuit directories, each the suffixes of its files in the order ReadDir
\* lists them; whether the files of a circuit can be read as gnark objects
CircuitDirs ==
    { [stat |-> "ok", dirs |-> d, readable |-> r] :
          d \in SeqUpTo(SeqUpTo(circuitExts \cup {otherExt}, MaxFiles), MaxDirs),
          r \in BOOLEAN }
    \cup { [stat |-> s, dirs |-> <<>>, readable |-> TRUE] :
               s \in {"not exist", "error"} }

\* a loadCircuit that takes the last file of a suffix instead of refusing a
\* second one
RECURSIVE loadFilesLastWins(_, _, _, _)
loadFilesLastWins(files, readable, i, have) ==
    IF i > Len(files) THEN circuitExts \subseteq have
    ELSE IF files[i] \notin circuitExts
         THEN loadFilesLastWins(files, readable, i + 1, have)
    ELSE IF ~readable THEN FALSE
    ELSE loadFilesLastWins(files, readable, i + 1, have \cup {files[i]})

\* the loop of loadCircuit over the files from index i on, have being the
\* objects already loaded, and the check that the circuit is full: TRUE when
\* loadCircuit returns nil
RECURSIVE loadFiles(_, _, _, _)
loadFiles(files, readable, i, have) ==
    IF i > Len(files) THEN circuitExts \subseteq have
    ELSE IF files[i] \notin circuitExts
         THEN loadFiles(files, readable, i + 1, have)
    ELSE IF files[i] \in have THEN FALSE
    ELSE IF ~readable THEN FALSE
    ELSE loadFiles(files, readable, i + 1, have \cup {files[i]})

\* Server.loadCircuit
loadCircuit(files, readable) == loadFiles(files, readable, 1, {})

\* the walk of loadCircuits from directory i on, n circuits being loaded: the
\* first loadCircuit that fails ends it
RECURSIVE loadDirs(_, _, _)
loadDirs(cd, i, n) ==
    IF i > Len(cd.dirs) THEN [err |-> FALSE, n |-> n]
    ELSE IF ~loadCircuit(cd.dirs[i], cd.readable) THEN [err |-> TRUE, n |-> n]
    ELSE loadDirs(cd, i + 1, n + 1)

\* Server.loadCircuits: the error and len(s.circuits)
loadCircuits(cd) ==
    IF cd.stat # "ok" THEN [err |-> TRUE, n |-> 0]
    ELSE LET r == loadDirs(cd, 1, 0)
         IN  IF r.err THEN r
             ELSE IF r.n = 0 THEN [err |-> TRUE, n |-> 0]
             ELSE r

\* NewServer(ctx, log, circuitDir): no logger or a catalog that does not load
\* is an error and nothing is started; else the ready-queue is made and the
\* worker and the GC are started
NewServer(log) ==
    /\ server = "none"
    /\ IF ~log \/ loadCircuits(circuitDir).err
       THEN /\ server' = "error"
            /\ UNCHANGED <<circuits, chCap, started>>
       ELSE /\ circuits' = loadCircuits(circuitDir).n
            /\ chCap' \in 1..Min({QueueCap, jobQueueSize})
            /\ started' = Tasks
            /\ server' = "ok"
    /\ UNCHANGED <<jobVars, subVars, connVars, workerVars, gcVars, chanVars,
                   ctxDone, circuitDir, fatal, behind, missed>>

\* before NewServer: nothing is loaded, made or started
InitCatalog ==
    /\ InitJobs
    /\ ctxDone = FALSE
    /\ circuitDir \in CircuitDirs
    /\ circuits = 0
    /\ chCap = 0
    /\ server = "none"
    /\ started = {}

NextCatalog == \E log \in BOOLEAN : NewServer(log)

SpecCatalog == InitCatalog /\ [][NextCatalog]_vars

\* ---------------------------------------------------------------- shutdown
\* the process-wide context is cancelled
Shutdown ==
    /\ Alive
    /\ ~ctxDone
    /\ ctxDone' = TRUE
    /\ UNCHANGED <<jobVars, subVars, connVars, workerVars, gcVars, chanVars,
                   chCap, circuitDir, circuits, server, started, fatal, behind, missed>>

\* startWorker: case <-ctx.Done(): return
WExit ==
    /\ Alive
    /\ ctxDone
    /\ wPc = "recv"
    /\ wPc' = "exit"
    /\ UNCHANGED <<jobVars, subVars, connVars, wJob, wIdx, gcVars, chanVars,
                   serverVars, fatal, behind, missed>>

\* startGC: case <-ctx.Done(): gcTicker.Stop(); return
GCExit ==
    /\ Alive
    /\ ctxDone
    /\ gcPc = "idle"
    /\ gcPc' = "exit"
    /\ UNCHANGED <<jobVars, subVars, connVars, workerVars, gcJob, gcIdx,
                   chanVars, serverVars, fatal, behind, missed>>

\* Scenario "shutdown": a ready-queue of capacity 1 and a context that is
\* cancelled at any moment; no job expires, no subscriber and no cancel.
NextSD ==
    \/ Shutdown
    \/ AcceptFails
    \/ WExit
    \/ GCExit
    \/ \E j \in Jobs : CreateProveJob(j)
    \/ \E c \in Conns : \E id \in Jobs \cup {NoJob} : RWAccept(c, id)
    \/ \E c \in Conns : RWLock(c)
    \/ \E c \in Conns : \E n \in 0..fullWitnessSize : RWRead(c, n)
    \/ \E c \in Conns : RWSetQueued(c)
    \/ \E c \in Conns : RWPublish(c)
    \/ WRecv
    \/ WIsExpired
    \/ WSetRunning
    \/ \E o \in {"ok", "prove error", "serialize error"} : WProve(o)
    \/ WSetDone

\* the goroutines are scheduled fairly; a select with several ready cases
\* takes any of them; a goroutine waiting for a job's lock gets it in the end
\* when the lock is released again and again (sync.Mutex does not starve a
\* waiter); a client that has sent its jobID goes on to send its witness or to
\* close the connection
FairnessSD ==
    /\ \A c \in Conns : WF_vars(\E n \in 0..fullWitnessSize : RWRead(c, n))
    /\ \A c \in Conns :
          SF_vars(RWLock(c)) /\ SF_vars(RWSetQueued(c)) /\ WF_vars(RWPublish(c))
    /\ WF_vars(WExit)
    /\ WF_vars(GCExit)
    /\ WF_vars(WRecv)
    /\ SF_vars(WIsExpired)
    /\ SF_vars(WSetRunning)
    /\ WF_vars(\E o \in {"ok", "prove error", "serialize error"} : WProve(o))
    /\ SF_vars(WSetDone)

FairSpecSD == InitBP /\ [][NextSD]_vars /\ FairnessSD

\* the fair scheduling of FairSpec, and wall-clock time goes on: every job
\* passes its expiration (defaultTTL after its creation)
FairnessClock ==
    /\ Fairness
    /\ \A j \in Jobs : WF_vars(Tick(j))

\* ------------------------------------------------- the server, in parts
\* Scenario "no subscription": the whole server with its two witness
\* connections while no client subscribes to a job, so that no send of
\* isExpired blocks
NextNoSub ==
    \/ AcceptFails
    \/ \E j \in Jobs : Tick(j)
    \/ \E j \in Jobs : CreateProveJob(j)
    \/ \E j \in Jobs : CancelProveJob(j)
    \/ \E c \in Conns : \E id \in Jobs \cup {NoJob} : RWAccept(c, id)
    \/ \E c \in Conns : RWLock(c)
    \/ \E c \in Conns : \E n \in 0..fullWitnessSize : RWRead(c, n)
    \/ \E c \in Conns : RWSetQueued(c)
    \/ \E c \in Conns : RWPublish(c)
    \/ WRecv
    \/ WIsExpired
    \/ WSetRunning
    \/ \E o \in {"ok", "prove error", "serialize error"} : WProve(o)
    \/ WSetDone
    \/ \E j \in Jobs : GCVisit(j)
    \/ GCLock
    \/ GCDelete

SpecNoSub == Init /\ [][NextNoSub]_vars

\* Scenario "the clock goes on": one witness connection at a time, no Cancel
\* call and a listener that keeps accepting, with a ready-queue of capacity 1
NextClock ==
    \/ \E j \in Jobs : Tick(j)
    \/ \E j \in Jobs : CreateProveJob(j)
    \/ \E id \in Jobs \cup {NoJob} : RWAccept(Min(Conns), id)
    \/ \E c \in Conns : RWLock(c)
    \/ \E c \in Conns : \E n \in 0..fullWitnessSize : RWRead(c, n)
    \/ \E c \in Conns : RWSetQueued(c)
    \/ \E c \in Conns : RWPublish(c)
    \/ WRecv
    \/ WIsExpired
    \/ WSend
    \/ WSetRunning
    \/ \E o \in {"ok", "prove error", "serialize error"} : WProve(o)
    \/ WSetDone
    \/ \E j \in Jobs : GCVisit(j)
    \/ GCLock
    \/ GCSend
    \/ GCDelete
    \/ \E s \in Subs : \E j \in Jobs : Subscribe(s, j)
    \/ \E s \in Subs : SubRecv(s)
    \/ \E s \in Subs : SubRead(s)

FairSpecClock == InitBP /\ [][NextClock]_vars /\ FairnessClock

\* Scenario "one connection": the whole server with its subscriber while the
\* clients open one witness connection at a time
NextOneConn ==
    \/ AcceptFails
    \/ \E j \in Jobs : CancelProveJob(j)
    \/ NextClock

SpecOneConn == Init /\ [][NextOneConn]_vars

FairSpecOneConn == Init /\ [][NextOneConn]_vars /\ Fairness

\* ------------------------------------------------------------------ claims

\* C1: every change of a job's status is one of the six edges of the state
\* machine; in particular no change leaves COMPLETED or ERRORED.
C1_StatusFollowsEdges ==
    [][\A j \in JobIds :
          status'[j] # status[j] => <<status[j], status'[j]>> \in Edges]_vars

\* C2: once a job is terminal (COMPLETED or ERRORED) its status, proof and err
\* never change again, so at most one terminal transition occurs.
C2_TerminalStable ==
    [][\A j \in JobIds :
          status[j] \in Terminal =>
              /\ status'[j] = status[j]
              /\ proof'[j] = proof[j]
              /\ err'[j] = err[j]]_vars

\* C3: an ingest has two outcomes only, admitted or rejected with the job
\* untouched: it never aborts the process, and once it has stored the witness
\* the job is still WAITING_WITNESS when it sets QUEUED (no cancel or expiry got
\* in between).
C3_IngestAdmitsOrRejects ==
    /\ fatal # "ingest"
    /\ \A c \in Conns :
          connPc[c] = "setq" => status[connJob[c]] = WAITING_WITNESS

\* C4: a jobID is published on the ready-queue at most once in the job's
\* lifetime, also when two connections carry the same jobID.
C4_PublishedAtMostOnce == \A j \in JobIds : pubCount[j] <= 1

\* C4 witness: a job was published while a second connection that stored a
\* witness for the same job is about to set QUEUED.
C4_Witness ==
    \E c \in Conns :
        /\ connPc[c] = "setq"
        /\ pubCount[connJob[c]] = 1

\* C5: the fatal path of updateJobStatusOrDie is never taken, neither by an
\* ingest task nor by the worker, whatever the clients, the clock and the
\* prover do.
C5_NeverFatal == fatal \notin {"ingest", "worker"}

\* C6: a job's witness is non-empty only while its status is QUEUED or RUNNING.
C6_WitnessOnlyQueuedOrRunning ==
    \A j \in JobIds : witness[j] > 0 => status[j] \in {QUEUED, RUNNING}

\* C7: a non-empty proof implies COMPLETED and a non-empty err implies ERRORED.
C7_ResultMatchesStatus ==
    \A j \in JobIds :
        /\ proof[j] => status[j] = COMPLETED
        /\ err[j] # errNil => status[j] = ERRORED

\* C8: every subscriber registered on a job that has become terminal eventually
\* observes the terminal status and has its stream closed (as long as the
\* process is running).
C8_SubscribersSeeTerminal ==
    \A s \in Subs :
        [](/\ subPc[s] \in {"wait", "wake"}
           /\ status[subJob[s]] \in Terminal
           => <>(subPc[s] = "closed" \/ ~Alive))

\* the ready-queue holds at most its capacity, which is at most jobQueueSize
QueueWithinCapacity ==
    /\ Len(queue) <= chCap
    /\ chCap <= jobQueueSize

\* an ingest is parked on the publish only while the queue is full, and it
\* keeps its jobID and has sent no reply
ParkedOnlyWhileFull ==
    /\ sendq # <<>> => Len(queue) = chCap
    /\ \A i \in 1..Len(sendq) :
          /\ connPc[sendq[i]] = "parked"
          /\ connJob[sendq[i]] \in JobIds
          /\ reply[sendq[i]] = "none"
    /\ \A c \in Conns : connPc[c] = "parked" => c \in Range(sendq)

\* a parked ingest leaves the publish only by its jobID entering the queue
ParkedIsPlaced ==
    \A c \in Conns :
        connPc[c] = "parked" /\ connPc'[c] # "parked" =>
            /\ queue' # <<>>
            /\ queue'[Len(queue')] = connJob[c]
            /\ reply'[c] = "ok"

\* the jobs whose witness is stored
Uploaded == { j \in JobIds : witness[j] = fullWitnessSize }

\* capacity 1, the worker held in the prover, three complete uploads none of
\* which was cancelled or expired, and no ingest under way before its publish
HeldWithThreeUploads ==
    /\ Alive
    /\ chCap = 1
    /\ wPc = "prove"
    /\ Cardinality(Uploaded) = 3
    /\ \A j \in Uploaded : status[j] \in {QUEUED, RUNNING}
    /\ \A c \in Conns : connPc[c] \in {"idle", "parked"}

\* the scenario as claimed: one job RUNNING, one with status QUEUED, one blocked
ScenarioAsClaimed ==
    HeldWithThreeUploads =>
        /\ Cardinality({ j \in Uploaded : status[j] = RUNNING }) = 1
        /\ Cardinality({ j \in Uploaded : status[j] = QUEUED }) = 1
        /\ Len(sendq) = 1

\* the scenario as the code has it: one job RUNNING, one jobID in the queue,
\* one ingest blocked, and both the queued and the blocked job have status
\* QUEUED
ScenarioAmended ==
    HeldWithThreeUploads =>
        /\ Cardinality({ j \in Uploaded : status[j] = RUNNING }) = 1
        /\ status[wJob] = RUNNING
        /\ Len(queue) = 1
        /\ Len(sendq) = 1
        /\ status[queue[1]] = QUEUED
        /\ status[connJob[sendq[1]]] = QUEUED
        /\ Cardinality({ j \in Uploaded : status[j] = QUEUED }) = 2

\* C9 as claimed: the ready-queue never exceeds its capacity, a full queue
\* blocks the ingest instead of dropping the job and the blocked jobID is
\* placed when the worker frees a slot; with capacity 1, a held worker and
\* three uploads exactly one job is RUNNING, exactly one has status QUEUED and
\* the third is blocked in ingest.
C9_AsClaimed ==
    /\ [](QueueWithinCapacity /\ ParkedOnlyWhileFull /\ ScenarioAsClaimed)
    /\ [][ParkedIsPlaced]_vars

\* C9 amended: as claimed, except that in the scenario two jobs have status
\* QUEUED, the one in the queue and the one blocked in ingest (the status is
\* set before the publish).
C9_Backpressure ==
    /\ [](QueueWithinCapacity /\ ParkedOnlyWhileFull /\ ScenarioAmended)
    /\ [][ParkedIsPlaced]_vars

\* C9 witness: the scenario state, with one ingest parked on the full queue.
C9_Witness == HeldWithThreeUploads /\ Len(sendq) = 1 /\ Len(queue) = chCap

\* C10: the worker receives the jobIDs in the order of their publication: each
\* receive takes the oldest published jobID that was not received yet.
C10_Fifo ==
    [][(wPc = "recv" /\ queue' # queue /\ Len(queue') <= Len(queue)) =>
          /\ pending # <<>>
          /\ SubSeq(pending', 1, Len(pending) - 1) = Tail(pending)
          /\ (wPc' = "expire" => wJob' = Head(pending))]_vars

\* C10 witness: the worker holds a job it received while another jobID,
\* published later, was queued behind it.
C10_Witness == behind >= 1 /\ wJob # NoJob /\ wPc = "setrun"

\* C11: when a witness connection delivers fewer than fullWitnessSize bytes the
\* exchange is answered "nok", the job is left in WAITING_WITNESS with an empty
\* witness and its lock released, nothing is published, and the job is still
\* accepted for a later upload (in the registry, WAITING_WITNESS, lock free).
C11_ShortReadLeavesJobWaiting ==
    [][\A c \in Conns :
          (connPc[c] = "read" /\ connPc'[c] = "idle") =>
              /\ reply'[c] = "nok"
              /\ reg'[connJob[c]] = "in"
              /\ status'[connJob[c]] = WAITING_WITNESS
              /\ witness'[connJob[c]] = 0
              /\ ~locked'[connJob[c]]
              /\ UNCHANGED <<queue, sendq, pubCount>>]_vars

\* the connection's exchange was refused before any witness byte was read: at
\* the lookup of the jobID or at the status check under the job's lock
Refused(c) ==
    /\ connPc[c] \in {"idle", "lock"} /\ connPc'[c] = "idle"
    /\ <<reply[c], failErr[c]>> # <<reply'[c], failErr'[c]>>

\* C12: only a job of the registry in WAITING_WITNESS is accepted for a witness
\* read; an upload for any other jobID is answered "nok" and leaves every
\* job's status, witness, proof and err, the registry and the ready-queue
\* unchanged.
C12_RejectedUploadChangesNothing ==
    [][\A c \in Conns :
          /\ (connPc[c] = "idle" /\ connPc'[c] # "idle") =>
                /\ connPc'[c] = "lock"
                /\ connJob'[c] \in JobIds
                /\ reg[connJob'[c]] = "in"
          /\ (connPc[c] # "read" /\ connPc'[c] = "read") =>
                /\ connPc[c] = "lock"
                /\ connJob'[c] = connJob[c]
                /\ reg[connJob[c]] = "in"
                /\ status[connJob[c]] = WAITING_WITNESS
          /\ Refused(c) =>
                /\ reply'[c] = "nok"
                /\ failErr'[c] \in {errUnknownJob, errNotWaiting}
                /\ UNCHANGED <<reg, status, witness, proof, err, queue, sendq,
                               pending, pubCount>>]_vars

\* C12 witness: an upload for a job that is not waiting for its witness was
\* refused, and so was one for a jobID that is not in the registry.
C12_Witness ==
    \E c, d \in Conns :
        /\ connPc[c] = "idle" /\ reply[c] = "nok" /\ failErr[c] = errNotWaiting
        /\ connPc[d] = "idle" /\ reply[d] = "nok" /\ failErr[d] = errUnknownJob
        /\ \E j \in JobIds : reg[j] = "in" /\ status[j] # WAITING_WITNESS

\* C13: a witness upload for a job whose expiration has passed is answered
\* "nok" and never admits the job to QUEUED, also when neither the GC nor the
\* worker has touched the job since it expired.
C13_ExpiredUploadRefused ==
    [][\A c \in Conns :
          (connJob[c] \in JobIds /\ expired[connJob[c]]) =>
              /\ ~(connPc[c] = "setq" /\ status'[connJob[c]] = QUEUED
                                      /\ status[connJob[c]] # QUEUED)
              /\ ~(reply[c] # "ok" /\ reply'[c] = "ok")]_vars

\* a Cancel takes effect on job j: err becomes cancelled
Cancelled(j) == err[j] # errJobCancelled /\ err'[j] = errJobCancelled

\* C14: a Cancel takes effect only on a job in WAITING_WITNESS or QUEUED, which
\* it makes ERRORED with err = cancelled (on a COMPLETED or ERRORED job it
\* changes neither status, proof nor err, so one Cancel or many give the same
\* state); a job whose err is cancelled is ERRORED; a job that left
\* WAITING_WITNESS never returns to it and only a job in WAITING_WITNESS is
\* accepted for a witness read, so every later upload is answered "nok".
C14_CancelThenUploadsRefused ==
    [][/\ \A j \in JobIds :
          /\ Cancelled(j) =>
                /\ status[j] \in {WAITING_WITNESS, QUEUED}
                /\ status'[j] = ERRORED
                /\ proof'[j] = proof[j]
          /\ err'[j] = errJobCancelled => status'[j] = ERRORED
          /\ status[j] # WAITING_WITNESS => status'[j] # WAITING_WITNESS
       /\ \A c \in Conns :
             /\ (connPc[c] # "read" /\ connPc'[c] = "read") =>
                   status[connJob'[c]] = WAITING_WITNESS
             /\ (Refused(c) /\ failErr'[c] = errNotWaiting) =>
                   reply'[c] = "nok"]_vars

\* C14 witness: the only job ever created was cancelled while it waited for its
\* witness (it was never queued) and an upload for it was refused afterwards.
C14_Witness ==
    \E j \in JobIds :
        /\ Alive
        /\ \A i \in JobIds \ {j} : reg[i] = "none"
        /\ reg[j] = "in" /\ status[j] = ERRORED /\ err[j] = errJobCancelled
        /\ pubCount[j] = 0 /\ witness[j] = 0
        /\ \A c \in Conns : connPc[c] = "idle"
        /\ \E c \in Conns : reply[c] = "nok" /\ failErr[c] = errNotWaiting

\* the handler of s registers: the first message of the stream
Registers(s) == subPc[s] = "none" /\ subPc'[s] # "none"

\* the woken handler of s emits a message
Emits(s) == subPc[s] = "wake" /\ subPc'[s] # "wake"

\* C15: the first message of a subscription is the job's status at
\* registration; the stream is closed by a message exactly when that message
\* carries a terminal status, and nothing is emitted on a closed stream; so a
\* subscription to a job that is already COMPLETED is one message, COMPLETED,
\* and the close.
C15_SubscriptionStream ==
    [][\A s \in Subs :
          /\ Registers(s) =>
                /\ subJob'[s] \in JobIds
                /\ lastMsg'[s] = status[subJob'[s]]
                /\ ~woken'[s]
                /\ status[subJob'[s]] = COMPLETED =>
                      subPc'[s] = "closed" /\ lastMsg'[s] = COMPLETED
          /\ (Registers(s) \/ Emits(s)) =>
                (subPc'[s] = "closed" <=> lastMsg'[s] \in Terminal)
          /\ ~(Registers(s) \/ Emits(s)) =>
                /\ lastMsg'[s] = lastMsg[s]
                /\ subPc'[s] = "closed" <=> subPc[s] = "closed"
          /\ subPc[s] = "closed" =>
                subPc'[s] = "closed" /\ lastMsg'[s] = lastMsg[s] /\ ~Emits(s)]_vars

\* C15 witness: a stream that was closed by its first message, COMPLETED: the
\* handler never waited for its sink.
C15_Witness ==
    \E s \in Subs :
        /\ subPc[s] = "closed"
        /\ ~woken[s]
        /\ lastMsg[s] = COMPLETED
        /\ status[subJob[s]] = COMPLETED

\* C16: a GC sweep that reaches a job whose expiration has passed sets it to
\* ERRORED with err = expired, notifies its subscribers and keeps it in the
\* registry (does not go on to delete it) when the job is not terminal, and
\* removes it, unmodified, when it is terminal; a job whose expiration has not
\* passed is neither modified nor removed, and only the sweep removes a job.
C16_SweepByTerminality ==
    [][\A j \in JobIds :
          /\ (gcPc \in {"idle", "lock"} /\ gcPc' \in {"send", "delete"}
                                        /\ gcJob' = j) =>
                /\ expired[j]
                /\ status[j] \notin Terminal =>
                      /\ status'[j] = ERRORED
                      /\ err'[j] = errJobExpired
                      /\ gcPc' # "delete"
                /\ status[j] \in Terminal =>
                      /\ UNCHANGED <<status, err, proof>>
                      /\ gcPc' = "delete"
          /\ (gcPc \in {"idle", "lock"} /\ gcPc' \in {"idle", "lock"}
                                        /\ gcPc' # gcPc) =>
                UNCHANGED <<reg, status, err, proof, witness, sink>>
          /\ reg'[j] # reg[j] /\ reg'[j] = "deleted" =>
                /\ gcPc = "delete" /\ gcJob = j
                /\ expired[j]
                /\ UNCHANGED <<status, err, proof>>]_vars

\* C19: no notifier is ever blocked in a send to a subscriber's sink, so none
\* keeps a job's lock while it waits for a subscriber to read.
C19_NotifierNeverBlocks ==
    /\ wPc # "send"
    /\ gcPc # "send"
    /\ \A j \in JobIds :
          locked[j] => \E c \in Conns : connPc[c] = "read" /\ connJob[c] = j

\* the worker's expiry check of the job it popped returns
ExpiryChecked == wPc = "expire" /\ wPc' # "expire"

\* C20: when the worker finds the job it popped past its expiration, the job
\* becomes ERRORED with err = expired, the worker neither sets RUNNING nor
\* calls the prover, once the check has returned every subscriber of the job
\* has a signal in its sink, and the worker gets back to the ready-queue for
\* the next jobID (as long as the process is running).
C20_ExpiredJobSkipped ==
    /\ [][(ExpiryChecked /\ expired[wJob]) =>
              /\ status'[wJob] = ERRORED
              /\ err'[wJob] = errJobExpired
              /\ wPc' \in {"recv", "send"}
              /\ wPc' = "recv" =>
                    \A s \in Range(subscribers[wJob]) : sink'[s] = 1]_vars
    /\ [][wPc = "send" => wPc' \in {"send", "recv"}]_vars
    /\ (wPc = "expire" /\ expired[wJob]) ~> (wPc = "recv" \/ ~Alive)

\* C17: once the context is cancelled the worker exits, the GC exits, and every
\* ingest task that has its witness (also one parked on the full ready-queue)
\* ends, as long as the process is running.
C17_TasksExitOnShutdown ==
    /\ ctxDone ~> (wPc = "exit" \/ ~Alive)
    /\ ctxDone ~> (gcPc = "exit" \/ ~Alive)
    /\ \A c \in Conns :
          (ctxDone /\ connPc[c] \in {"setq", "publish", "parked"})
              ~> (connPc[c] = "idle" \/ ~Alive)

\* a circuit directory holds two files with the same circuit suffix
HasDuplicate(files) ==
    \E i, k \in 1..Len(files) :
        i # k /\ files[i] = files[k] /\ files[i] \in circuitExts

\* a circuit directory has no file with one of the circuit suffixes
LacksOne(files) == \E e \in circuitExts : e \notin Range(files)

\* the catalog on disk is one the claim says must fail
BadCatalog ==
    \/ circuitDir.stat = "not exist"
    \/ \E i \in 1..Len(circuitDir.dirs) :
          HasDuplicate(circuitDir.dirs[i]) \/ LacksOne(circuitDir.dirs[i])
    \/ circuitDir.dirs = <<>>

\* C18: NewServer fails when the root directory is missing, when a circuit
\* directory holds two files with the same suffix among .pk, .vk, .r1cs or
\* lacks one of them, and when there is no circuit; when it fails no Server is
\* returned and neither the worker nor the GC is started (and a Server that is
\* returned has its circuits, its worker and its GC).
C18_CatalogFailures ==
    server # "none" =>
        /\ BadCatalog => server = "error"
        /\ server = "error" => started = {} /\ chCap = 0
        /\ server = "ok" =>
              /\ started = Tasks
              /\ circuits = Len(circuitDir.dirs)
              /\ circuits >= 1

\* C18 witness: NewServer failed on a catalog whose first directory is a
\* complete circuit and whose second holds two files with the same suffix.
C18_Witness ==
    /\ server = "error"
    /\ started = {}
    /\ circuitDir.stat = "ok"
    /\ circuitDir.readable
    /\ Len(circuitDir.dirs) = 2
    /\ ~HasDuplicate(circuitDir.dirs[1]) /\ ~LacksOne(circuitDir.dirs[1])
    /\ HasDuplicate(circuitDir.dirs[2]) /\ ~LacksOne(circuitDir.dirs[2])

\* the worker receives the head of chJobQueue
Pops ==
    /\ wPc = "recv"
    /\ queue # <<>>
    /\ queue' # queue
    /\ Len(queue') <= Len(queue)

\* C21: when the worker receives a jobID that is not in the registry any more,
\* the process goes on, no field of any job and no registry entry changes, and
\* the worker is back at the ready-queue with no job in hand; a jobID it
\* receives that is in the registry goes to the expiry check as usual.
C21_MissingJobSkipped ==
    [][Pops =>
          IF reg[Head(queue)] # "in"
          THEN /\ fatal' = fatal
               /\ UNCHANGED <<jobVars, subVars>>
               /\ wPc' = "recv"
               /\ wJob' = NoJob
               /\ missed'
          ELSE /\ wPc' = "expire"
               /\ wJob' = Head(queue)
               /\ ~missed']_vars

\* C21 witness: the worker has skipped a jobID the GC had removed, and the next
\* jobID, of a job of the registry, is waiting in the ready-queue.
C21_Witness ==
    /\ missed
    /\ Alive
    /\ wPc = "recv"
    /\ queue # <<>>
    /\ reg[Head(queue)] = "in"

\* the jobs in RUNNING
Running == { j \in JobIds : status[j] = RUNNING }

\* C22: at most one job is RUNNING, and a RUNNING job is the one job the
\* worker has in hand, between its setStatus(RUNNING) and its final setStatus:
\* the prover is called for that job only.
C22_AtMostOneRunning ==
    /\ Cardinality(Running) <= 1
    /\ \A j \in Running :
          /\ wJob = j
          /\ wPc \in {"prove", "setcompleted", "seterrored"}

\* C22 witness: the prover runs on a RUNNING job while another job is QUEUED
\* in the ready-queue.
C22_Witness ==
    /\ wPc = "prove"
    /\ status[wJob] = RUNNING
    /\ \E j \in Range(queue) : j # wJob /\ status[j] = QUEUED

\* C23: a job's witness is either absent or has the fullWitnessSize of its
\* circuit; a QUEUED job has its whole witness; the job the prover is called
\* on has its whole witness.
C23_WitnessLength ==
    /\ \A j \in JobIds : witness[j] \in {0, fullWitnessSize}
    /\ \A j \in JobIds : status[j] = QUEUED => witness[j] = fullWitnessSize
    /\ wPc = "prove" => witness[wJob] = fullWitnessSize

\* C23 witness: the prover is called on a job while a connection that sent too
\* few bytes for a job has been answered "nok".
C23_Witness ==
    /\ wPc = "prove"
    /\ witness[wJob] = fullWitnessSize
    /\ \E c \in Conns : failErr[c] = errShortRead /\ reply[c] = "nok"

\* the steps of a connection's exchange come in the order of receiveWitness:
\* the witness is stored, then the status is set to QUEUED, then the jobID
\* enters the ready-queue, then "ok" is written; "ok" is written by no other
\* step; a failed exchange is answered "nok" and publishes nothing
ReplyOrder ==
    [][\A c \in Conns :
          /\ (connPc[c] = "idle" /\ connPc'[c] # "idle") =>
                connPc'[c] = "lock" /\ reply'[c] = "none"
          /\ (connPc[c] = "lock" /\ connPc'[c] # "lock") =>
                connPc'[c] \in {"read", "idle"}
          /\ (connPc[c] = "read" /\ connPc'[c] # "read") =>
                connPc'[c] \in {"setq", "idle"}
          /\ (connPc[c] = "read" /\ connPc'[c] = "setq") =>
                /\ witness'[connJob[c]] = fullWitnessSize
                /\ reply'[c] = "none"
          /\ (connPc[c] = "setq" /\ connPc'[c] # "setq" /\ fatal' = fatal) =>
                /\ connPc'[c] = "publish"
                /\ status[connJob[c]] # QUEUED
                /\ status'[connJob[c]] = QUEUED
                /\ reply'[c] = "none"
          /\ (connPc[c] = "publish" /\ connPc'[c] # "publish") =>
                connPc'[c] \in {"parked", "idle"}
          /\ (connPc[c] = "parked" /\ connPc'[c] # "parked") =>
                connPc'[c] = "idle"
          /\ (connPc[c] \in {"publish", "parked"} /\ connPc'[c] = "idle") =>
                /\ reply'[c] = "ok"
                /\ pubCount'[connJob[c]] = pubCount[connJob[c]] + 1
                /\ queue'[Len(queue')] = connJob[c]
          /\ (reply'[c] = "ok" /\ reply[c] # "ok") =>
                /\ connPc[c] \in {"publish", "parked"}
                /\ connPc'[c] = "idle"
          /\ (Refused(c) \/ (connPc[c] = "read" /\ connPc'[c] = "idle")) =>
                /\ reply'[c] = "nok"
                /\ UNCHANGED <<queue, sendq, pending, pubCount>>]_vars

\* no reply has been written while the exchange is under way, in particular
\* while the publish is parked on the full ready-queue
ReplyPending ==
    \A c \in Conns :
        /\ connPc[c] # "idle" => reply[c] = "none"
        /\ connPc[c] = "parked" =>
              /\ Len(queue) = chCap
              /\ connJob[c] \notin Range(queue)

\* no ingest task ends its exchange by aborting the process: a task that has
\* not replied yet goes on to its reply
IngestReplies ==
    \A c \in Conns : (connPc[c] # "idle" /\ reply[c] = "none") => fatal # "ingest"

\* C24: a connection's exchange is answered once: "ok" after the witness was
\* stored, the status set to QUEUED and the jobID published, in that order,
\* "nok" with nothing published on every failure; no reply is written before
\* (none while the publish is parked on the full queue), and no exchange ends
\* without its reply.
C24_OneReplyInOrder ==
    /\ ReplyOrder
    /\ []ReplyPending
    /\ []IngestReplies

\* job j is admitted: QUEUED with its jobID in the ready-queue
Admitted(j) == status[j] = QUEUED /\ j \in Range(queue)

\* C25: every admitted job reaches COMPLETED or ERRORED, as long as the
\* process is running.
C25_AdmittedJobTerminates ==
    \A j \in Jobs :
        (Admitted(j) /\ Alive) ~> (status[j] \in Terminal \/ ~Alive)

\* the fields of job j that its lock protects
Fields(j) == <<status[j], witness[j], proof[j], err[j]>>

\* C26: a step that writes a field of a job is made by the holder of the job's
\* lock: the lock is free for the writer to take, or the writer is the ingest
\* task that holds it for its witness read; no field is written while another
\* task holds the lock.
C26_WritesUnderLock ==
    [][\A j \in JobIds :
          Fields(j)' # Fields(j) =>
              \/ ~locked[j]
              \/ \E c \in Conns :
                    /\ connPc[c] = "read" /\ connJob[c] = j
                    /\ connPc'[c] # "read"]_vars

\* the tasks that hold the lock of job j across steps: an ingest during its
\* witness read, the GC or the worker blocked in a send of isExpired
Holders(j) ==
    { <<"ingest", c>> : c \in { d \in Conns : connPc[d] = "read" /\ connJob[d] = j } }
        \cup (IF gcPc = "send" /\ gcJob = j THEN { <<"gc", NoJob>> } ELSE {})
        \cup (IF wPc = "send" /\ wJob = j THEN { <<"worker", NoJob>> } ELSE {})

\* C27: an ingest task holds a job's lock during its witness read only: a held
\* lock has exactly one holder, which is never an ingest that is setting
\* QUEUED, publishing, parked on the full queue or done, and the step that
\* ends the witness read, with "nok" or not, leaves the lock released.
C27_IngestReleasesLock ==
    /\ [](\A j \in JobIds :
            /\ locked[j] => Cardinality(Holders(j)) = 1
            /\ ~locked[j] => Holders(j) = {})
    /\ [][\A c \in Conns :
            (connPc[c] = "read" /\ connPc'[c] # "read") =>
                ~locked'[connJob[c]]]_vars

\* C27 witness: an ingest is parked on the full ready-queue and another has
\* been answered "nok" after a short read, and the lock of the parked
\* ingest's job is free.
C27_Witness ==
    \E c, d \in Conns :
        /\ connPc[c] = "parked"
        /\ ~locked[connJob[c]]
        /\ connPc[d] = "idle" /\ reply[d] = "nok" /\ failErr[d] = errShortRead

====
